---- MODULE Spec2Model ----
(***************************************************************************)
(* Entity-component table (core/ec_table.py) and the systems that query it *)
(* (core/system.py) of space-ranger.                                       *)
(*                                                                         *)
(* A table is a Python dict  EntityUid -> dict[ComponentKey, Component];   *)
(* it is modelled as a function whose DOMAIN is the set of live uids, each *)
(* row a function whose DOMAIN is the set of attached component keys.      *)
(* Every method of EcTable is an operator that takes the table and the     *)
(* call's arguments and yields a record                                    *)
(*      [table |-> the table after the call,                               *)
(*       err   |-> the exception that left the call ("none" if none),      *)
(*       ret   |-> the value returned]                                     *)
(* and one action per method applies it to the state.                      *)
(***************************************************************************)
EXTENDS Integers, Sequences, FiniteSets, TLC

VARIABLES
    table,      \* EcTable._table
    entities,   \* System._entities of every system: system id -> set of uids
    last,       \* the latest call: the method, its exception, whether it changed anything
    retired,    \* history (SpecHistory): the uids whose row has left the table
    Scene,      \* Scene._entities and System.queued_entities of the scene's systems
    Entity_components, \* Entity.components of every Entity object: the keys it holds
    frame,      \* the latest call on the scene and the hooks it executed
    app,        \* Application: _current_scene, _running, the loop's progress
    scenes,     \* every registered scene: calls of start/update/finish, the switch asked for
    runs,       \* executions of every system of every pipeline of every scene
    appcall,    \* the latest step of Application.run and its events in order
    System_executor,         \* System._executor of every System object made so far
    SystemsPipeline_systems, \* SystemsPipeline._systems: the System objects added
    pipecall    \* the latest call of make_system, System, SystemsPipeline.add or .run

sceneVars == <<Scene, Entity_components, frame>>
appVars == <<app, scenes, runs, appcall>>
pipeVars == <<System_executor, SystemsPipeline_systems, pipecall>>
vars == <<table, entities, last, retired, sceneVars, appVars, pipeVars>>

---------------------------------------------------------------------------
(* Bounds of the model *)

MaxUids == 2        \* the uid generator yields values in 1..MaxUids
MaxDraws == 2       \* values create_entity takes from the generator in one call
MaxComps == 1       \* components passed to one create_entity call
MaxQueryUids == 3   \* uids of the tables SpecQuery starts from

UIDs == 1 .. MaxUids
NoUid == 0
EntityNames == {"player"}

\* Component keys: the type of a component is its key.
EntityDataKey == "EntityData"
OptionalKeys == {"A", "B", "C"}
ComponentKeys == {EntityDataKey} \cup OptionalKeys

---------------------------------------------------------------------------
(* Python values *)

\* utils.MISSING, the "no default supplied" sentinel, and some defaults a
\* caller may pass (None and 0 are falsy, "default" is the tests' value).
MISSING == "MISSING"
Defaults == {"None", "0", "default"}

\* None as the result of a component lookup.
None == [key |-> "None", id |-> "", name |-> "", uid |-> NoUid, enabled |-> FALSE]

\* EntityData(name, uid): the mandatory component; enabled defaults to True.
\* The table makes one per row; "given" marks one made by client code.
EntityData(name, uid) ==
    [key |-> EntityDataKey, id |-> "row", name |-> name, uid |-> uid, enabled |-> TRUE]

\* An instance of a user component type: the type is its key, `id` is the
\* identity of the object (two instances of one type differ in it).
Component(key, id) ==
    [key |-> key, id |-> id, name |-> "", uid |-> NoUid, enabled |-> FALSE]

\* The component objects client code holds: two of each of the types it
\* instantiates (under Spec no code instantiates C).
ObjectIds == {"first", "second"}
InstantiatedKeys == {"A", "B"}

\* component.get_key(): the component's type.
get_key(component) == component.key

\* Truth value of a component object: Component defines neither __bool__
\* nor __len__, so every instance is truthy and only None is falsy.
bool(value) == value # None

\* The components client code may pass to the table.
Components ==
    {Component(k, i) : k \in InstantiatedKeys, i \in ObjectIds}
        \cup {[EntityData(n, NoUid) EXCEPT !.id = "given"] : n \in EntityNames}

\* dict.get(key, default) and dict[key] on a dict modelled as a function.
dict_get(d, k, default) == IF k \in DOMAIN d THEN d[k] ELSE default
dict_set(d, k, v) == [x \in DOMAIN d \cup {k} |-> IF x = k THEN v ELSE d[x]]
dict_del(d, k) == [x \in DOMAIN d \ {k} |-> d[x]]
EmptyDict == << >>

---------------------------------------------------------------------------
(* Return values and call results *)

RetNone == [kind |-> "None", uid |-> NoUid, value |-> "", comp |-> None, uids |-> {}]
RetEntity(uid) == [RetNone EXCEPT !.kind = "Entity", !.uid = uid]
RetValue(v) == [RetNone EXCEPT !.kind = "value", !.value = v]
RetComponent(c) == IF c = None THEN RetNone ELSE [RetNone EXCEPT !.kind = "Component", !.comp = c]
RetEntities(S) == [RetNone EXCEPT !.kind = "set", !.uids = S]

NoError == "none"
Return(tbl, ret) == [table |-> tbl, err |-> NoError, ret |-> ret]
Raise(tbl, err) == [table |-> tbl, err |-> err, ret |-> RetNone]

---------------------------------------------------------------------------
(* core/errors.py *)

\* The names bound in the module core/errors.py when it runs: Component,
\* EntityData, Entity and EntityUid are imported under `if t.TYPE_CHECKING:`
\* only, so they are not among them.
ErrorsModuleNames ==
    {"annotations", "t", "ComponentsCollisionError", "EntityDataRemovalAttemptError",
     "UnknownEntityUidError", "SystemExecutorIsNotCallableError", "UnknownSceneIdError"}

\* Evaluating a name a module does not bind raises NameError; otherwise the
\* exception under construction is the one that gets raised.
Construct(exception, names_read) ==
    IF names_read \subseteq ErrorsModuleNames THEN exception ELSE "NameError"

\* UnknownEntityUidError(uid): its message reads the argument only.
UnknownEntityUidError(uid) == Construct("UnknownEntityUidError", {})

\* ComponentsCollisionError(entity, component): reads entity.uid and component.
ComponentsCollisionError(entity, component) == Construct("ComponentsCollisionError", {})

\* EntityDataRemovalAttemptError(entity): its message reads EntityData.__name__.
EntityDataRemovalAttemptError(entity) ==
    Construct("EntityDataRemovalAttemptError", {"EntityData"})

---------------------------------------------------------------------------
(* core/ec_table.py: class EcTable *)

\* The values generate_entity_uid() may yield: any uid.
generate_entity_uid == UIDs

\* Entity(uid, ec_table): a handle, a uid and a reference to the table.
Entity(uid) == RetEntity(uid)

\* get_entity_by_uid as EcsManager wrote it (core/ecs_manager.py):
\* `entity = table.get(uid, default)`, an error only if that is MISSING,
\* and a handle otherwise, also for an absent uid.
get_entity_by_uid_default_as_row(tbl, uid, default) ==
    IF uid \notin DOMAIN tbl /\ default = MISSING
    THEN Raise(tbl, UnknownEntityUidError(uid))
    ELSE Return(tbl, Entity(uid))

\* EcTable.get_entity_by_uid(uid, default=MISSING)
get_entity_by_uid(tbl, uid, default) ==
    \* entity = self._table.get(uid, MISSING); `entity is MISSING` holds
    \* exactly when uid is no key of the dict (a row is a dict, never MISSING).
    LET entity_is_MISSING == uid \notin DOMAIN tbl
    IN  IF entity_is_MISSING
        THEN IF default = MISSING
             THEN Raise(tbl, UnknownEntityUidError(uid))
             ELSE Return(tbl, RetValue(default))
        ELSE Return(tbl, Entity(uid))

\* get_component with the row subscripted, `self._table[entity_uid].get(key)`:
\* a KeyError for an absent entity.
get_component_subscript(tbl, entity_uid, component_key) ==
    IF entity_uid \notin DOMAIN tbl THEN Raise(tbl, "KeyError")
    ELSE Return(tbl, RetComponent(dict_get(tbl[entity_uid], component_key, None)))

\* EcTable.get_component(entity_uid, component_key)
get_component(tbl, entity_uid, component_key) ==
    Return(tbl, RetComponent(dict_get(dict_get(tbl, entity_uid, EmptyDict), component_key, None)))

\* delete_entity as `self._table.pop(uid, None)`: silent on an absent uid.
delete_entity_silent(tbl, uid) == Return(dict_del(tbl, uid), RetNone)

\* EcTable.delete_entity(uid)
delete_entity(tbl, uid) ==
    IF uid \notin DOMAIN tbl
    THEN Raise(tbl, UnknownEntityUidError(uid))
    ELSE Return(dict_del(tbl, uid), RetNone)

\* add_component without its collision check: the new component replaces
\* the one attached under its key.
add_component_overwriting(tbl, entity_uid, component) ==
    LET entity == get_entity_by_uid(tbl, entity_uid, MISSING)
    IN  IF entity.err # NoError THEN entity
        ELSE Return(dict_set(tbl, entity_uid,
                             dict_set(tbl[entity_uid], get_key(component), component)), RetNone)

\* EcTable.add_component(entity_uid, component)
add_component(tbl, entity_uid, component) ==
    LET entity == get_entity_by_uid(tbl, entity_uid, MISSING)
        key == get_key(component)
    IN  IF entity.err # NoError THEN entity
        ELSE IF bool(get_component(tbl, entity_uid, key).ret.comp)
        THEN Raise(tbl, ComponentsCollisionError(entity.ret, component))
        ELSE Return(dict_set(tbl, entity_uid, dict_set(tbl[entity_uid], key, component)), RetNone)

\* remove_component without its existence check: `del` of an absent key
\* is a KeyError.
remove_component_unchecked(tbl, entity_uid, component_key) ==
    LET entity == get_entity_by_uid(tbl, entity_uid, MISSING)
    IN  IF entity.err # NoError THEN entity
        ELSE IF component_key = EntityDataKey
        THEN Raise(tbl, EntityDataRemovalAttemptError(entity.ret))
        ELSE IF component_key \notin DOMAIN tbl[entity_uid]
        THEN Raise(tbl, "KeyError")
        ELSE Return(dict_set(tbl, entity_uid, dict_del(tbl[entity_uid], component_key)), RetNone)

\* EcTable.remove_component(entity_uid, component_key)
remove_component(tbl, entity_uid, component_key) ==
    LET entity == get_entity_by_uid(tbl, entity_uid, MISSING)
    IN  IF entity.err # NoError THEN entity
        ELSE IF get_component(tbl, entity_uid, component_key).ret.comp = None
        THEN Return(tbl, RetNone)
        ELSE IF component_key = EntityDataKey
        THEN Raise(tbl, EntityDataRemovalAttemptError(entity.ret))
        ELSE Return(dict_set(tbl, entity_uid, dict_del(tbl[entity_uid], component_key)), RetNone)

\* The loop of create_entity over the values the generator yields, draws[i]
\* being the i-th: `while self._table.get(uid) is not None: uid = generate...`.
\* A row is a dict, so the test holds exactly when uid is a key of the table.
RECURSIVE avoid_collisions(_, _, _)
avoid_collisions(tbl, draws, i) ==
    IF draws[i] \in DOMAIN tbl /\ i < Len(draws)
    THEN avoid_collisions(tbl, draws, i + 1)
    ELSE draws[i]

\* `for component in components: self.add_component(uid, component)`: the
\* first exception leaves the loop with the table as it is by then.
RECURSIVE add_components(_, _, _, _)
add_components(tbl, uid, components, i) ==
    IF i > Len(components) THEN Return(tbl, RetNone)
    ELSE LET r == add_component(tbl, uid, components[i])
         IN  IF r.err # NoError THEN r
             ELSE add_components(r.table, uid, components, i + 1)

\* create_entity without the collision loop: the first generated uid is used.
create_entity_first_draw(tbl, name, draws, components) ==
    LET uid == draws[1]
        row == (EntityDataKey :> EntityData(name, uid))
        added == add_components(dict_set(tbl, uid, row), uid, components, 1)
    IN  IF added.err # NoError THEN added
        ELSE get_entity_by_uid(added.table, uid, MISSING)

\* EcTable.create_entity(name, *components), the generator yielding draws.
create_entity(tbl, name, draws, components) ==
    LET uid == avoid_collisions(tbl, draws, 1)
        row == (EntityDataKey :> EntityData(name, uid))
        added == add_components(dict_set(tbl, uid, row), uid, components, 1)
    IN  IF added.err # NoError THEN added
        ELSE get_entity_by_uid(added.table, uid, MISSING)

\* EcTable.iter_entities(): a handle for every key of the table; the uids
\* of the handles, in no order (a handle compares and hashes by its uid).
iter_entities(tbl) == {get_entity_by_uid(tbl, uid, MISSING).ret.uid : uid \in DOMAIN tbl}

\* Entity.get_component(key): the handle asks its table.
Entity_get_component(tbl, uid, key) == get_component(tbl, uid, key).ret.comp

\* Python's all() and any() over the truth values of a generator.
all(values) == \A v \in values : bool(v)
any(values) == \E v \in values : bool(v)

\* get_entities_by_components as its docstring has it: all the keys when
\* partitial is True, at least one of them otherwise.
get_entities_by_components_as_documented(tbl, components_keys, partitial) ==
    LET looked_up(e) == {Entity_get_component(tbl, e, k) : k \in components_keys}
    IN  Return(tbl, RetEntities({e \in iter_entities(tbl) :
            IF partitial THEN all(looked_up(e)) ELSE any(looked_up(e))}))

\* EcTable.get_entities_by_components(*components_keys, partitial=False)
get_entities_by_components(tbl, components_keys, partitial) ==
    LET looked_up(e) == {Entity_get_component(tbl, e, k) : k \in components_keys}
    IN  Return(tbl, RetEntities({e \in iter_entities(tbl) :
            IF partitial THEN any(looked_up(e)) ELSE all(looked_up(e))}))

---------------------------------------------------------------------------
(* core/system.py: class System *)

\* The systems of the model and System._required_components of each.
Systems == {"every", "ab"}
required_components(system) == IF system = "every" THEN {} ELSE {"A", "B"}

\* System.match_entity(entity_uid)
match_entity(tbl, system, entity_uid) ==
    \A component_key \in required_components(system) :
        get_component(tbl, entity_uid, component_key).ret.comp # None

\* System.add_entity(entity_uid): set.add
add_entity(cache, entity_uid) ==
    [entities |-> cache \cup {entity_uid}, err |-> NoError]

\* remove_entity as `self._entities.discard(entity_uid)`: silent on a
\* non-member.
remove_entity_discard(cache, entity_uid) ==
    [entities |-> cache \ {entity_uid}, err |-> NoError]

\* System.remove_entity(entity_uid): set.remove raises KeyError on a non-member
remove_entity(cache, entity_uid) ==
    IF entity_uid \in cache
    THEN [entities |-> cache \ {entity_uid}, err |-> NoError]
    ELSE [entities |-> cache, err |-> "KeyError"]

\* update_entities without the match_entity test: every row of the table.
update_entities_every_row(tbl, system) ==
    [entities |-> iter_entities(tbl), err |-> NoError]

\* System.update_entities()
update_entities(tbl, system) ==
    [entities |-> {uid \in iter_entities(tbl) : match_entity(tbl, system, uid)},
     err |-> NoError]

\* System.run that asks the table instead of its cache: the executor is
\* given a handle for every row.
run_over_table(tbl, cache) == Return(tbl, RetEntities(iter_entities(tbl)))

\* System.run(app): the executor is given a handle for every cached uid;
\* get_entity_by_uid is called without a default.
run(tbl, cache) ==
    IF \E uid \in cache : get_entity_by_uid(tbl, uid, MISSING).err # NoError
    THEN Raise(tbl, UnknownEntityUidError(NoUid))
    ELSE Return(tbl, RetEntities({get_entity_by_uid(tbl, uid, MISSING).ret.uid : uid \in cache}))

---------------------------------------------------------------------------
(* core/scene.py, core/system/_system.py, core/entity.py: the Scene that   *)
(* holds Entity objects and queues them in its System objects              *)

MaxSceneEntities == 2   \* Entity objects client code makes

\* Entity.id of the Entity objects, and the keys their components have.
EntityIds == 1 .. MaxSceneEntities
NoEntity == 0
SceneComponentKeys == {"Script", "Sprite"}

\* The System subclasses of the scene.
SceneSystems == {"ScriptingSystem", "SpriteRotationSystem"}

\* ScriptingSystem._match_entity, SpriteRotationSystem._match_entity: the
\* keys of the entity that the system works on.
_match_entity(system, entity_components) ==
    IF system = "ScriptingSystem"
    THEN {component_key \in entity_components : component_key = "Script"}
    ELSE IF "Sprite" \in entity_components THEN {"Sprite"} ELSE {}

\* The hooks assigned to the classes: start_entity and update_entity on
\* ScriptingSystem, update_entity on SpriteRotationSystem.
_start_entity(system) == system = "ScriptingSystem"
_update_entity(system) == system \in SceneSystems

\* Scene.__init__ and System.__init__: no entities, nothing queued.  The
\* keys of queued_entities are kept; the value under a key is the dict of
\* the matched components, never empty.
NewScene == [entities |-> {}, queued |-> [system \in SceneSystems |-> {}]]

\* The record of no call on the scene yet.
NoFrame == [op |-> "", entity |-> NoEntity, err |-> NoError, hooks |-> << >>]

\* A call on the scene as it runs: the scene, the hook calls made so far
\* (each with the queues as they were at the call), the exception raised.
Running(sc) == [entities |-> sc.entities, queued |-> sc.queued, hooks |-> << >>, err |-> NoError]
Hook(hook, system, entity, queued) ==
    [hook |-> hook, system |-> system, entity |-> entity, queued |-> queued]
CallHook(st, hook, system, entity) ==
    [st EXCEPT !.hooks = Append(@, Hook(hook, system, entity, st.queued))]
Failed(st, err) == [st EXCEPT !.err = err]

\* The orders a `for` loop may visit a set or a dict in: the members of S
\* in the order they have in `order`, a sequence of all the ids.
Orders(S) == {order \in [1 .. Cardinality(S) -> S] : \A i, j \in DOMAIN order : i # j => order[i] # order[j]}
SelectIn(order, S) == SelectSeq(order, LAMBDA x : x \in S)

\* System.queue_entity(entity)
queue_entity(st, system, entity, comps) ==
    LET matched_components_keys == _match_entity(system, comps[entity])
        queued == [st EXCEPT !.queued[system] = @ \cup {entity}]
    IN  IF matched_components_keys = {} THEN st
        ELSE IF _start_entity(system) THEN CallHook(queued, "start_entity", system, entity)
        ELSE queued

\* System.contains_entity(entity)
contains_entity(st, system, entity) == entity \in st.queued[system]

\* System.remove_entity(entity) of core/system/_system.py: `del` of the key
System_remove_entity(st, system, entity) ==
    IF entity \in st.queued[system]
    THEN [st EXCEPT !.queued[system] = @ \ {entity}]
    ELSE Failed(st, "KeyError")

\* Scene.instantiate(entity): the loop over self._systems
RECURSIVE instantiate_loop(_, _, _, _, _)
instantiate_loop(st, systems, i, entity, comps) ==
    IF i > Len(systems) THEN st
    ELSE instantiate_loop(queue_entity(st, systems[i], entity, comps), systems, i + 1, entity, comps)

\* Scene.instantiate(entity)
instantiate(st, entity, comps, systems) ==
    instantiate_loop([st EXCEPT !.entities = @ \cup {entity}], systems, 1, entity, comps)

\* Scene.destroy(entity): the loop over self._systems
RECURSIVE destroy_loop(_, _, _, _)
destroy_loop(st, systems, i, entity) ==
    IF i > Len(systems) \/ st.err # NoError THEN st
    ELSE destroy_loop(IF contains_entity(st, systems[i], entity)
                      THEN System_remove_entity(st, systems[i], entity)
                      ELSE st,
                      systems, i + 1, entity)

\* Scene.destroy without the contains_entity test: remove_entity is called
\* on every system and raises KeyError in the first that has not queued
\* the entity.
destroy_unchecked(st, entity, systems) ==
    IF entity \notin st.entities THEN Failed(st, "KeyError")
    ELSE IF \E i \in DOMAIN systems : entity \notin st.queued[systems[i]]
    THEN Failed([st EXCEPT !.entities = @ \ {entity}], "KeyError")
    ELSE [st EXCEPT !.entities = @ \ {entity},
                    !.queued = [system \in SceneSystems |-> @[system] \ {entity}]]

\* Scene.destroy(entity): set.remove raises KeyError on a non-member
destroy(st, entity, systems) ==
    IF entity \notin st.entities THEN Failed(st, "KeyError")
    ELSE destroy_loop([st EXCEPT !.entities = @ \ {entity}], systems, 1, entity)

\* System.start(): the loop over self.queued_entities
RECURSIVE start_loop(_, _, _, _)
start_loop(st, system, ids, i) ==
    IF i > Len(ids) THEN st
    ELSE start_loop(CallHook(st, "start_entity", system, ids[i]), system, ids, i + 1)

\* System.start(): no class assigns before_start or after_start
System_start(st, system, order) ==
    IF _start_entity(system)
    THEN start_loop(st, system, SelectIn(order, st.queued[system]), 1)
    ELSE st

\* Scene.start(): `for e in self._entities: self.instantiate(e)`
RECURSIVE start_entities_loop(_, _, _, _, _)
start_entities_loop(st, ids, i, comps, systems) ==
    IF i > Len(ids) THEN st
    ELSE start_entities_loop(instantiate(st, ids[i], comps, systems), ids, i + 1, comps, systems)

\* Scene.start(): `for system in self._systems: system.start()`
RECURSIVE start_systems_loop(_, _, _, _)
start_systems_loop(st, systems, i, order) ==
    IF i > Len(systems) THEN st
    ELSE start_systems_loop(System_start(st, systems[i], order), systems, i + 1, order)

\* Scene.start(), user_defined_entities being what _get_entities() returns
Scene_start(st, user_defined_entities, comps, order, systems) ==
    LET collected == [st EXCEPT !.entities = @ \cup user_defined_entities]
        instantiated ==
            start_entities_loop(collected, SelectIn(order, collected.entities), 1, comps, systems)
    IN  start_systems_loop(instantiated, systems, 1, order)

\* What the code of a Script component does with the scene while the
\* update_entity hook of ScriptingSystem runs for entity `by`.
NoEffect == [by |-> NoEntity, kind |-> "none", target |-> NoEntity]
Effects(sc) ==
    {NoEffect}
        \cup {[by |-> by, kind |-> "instantiate", target |-> target] :
                by \in sc.queued["ScriptingSystem"], target \in EntityIds \ sc.entities}
        \cup {[by |-> by, kind |-> "destroy", target |-> target] :
                by \in sc.queued["ScriptingSystem"], target \in sc.entities}
script_update(st, effect, comps, systems) ==
    IF effect.kind = "instantiate" THEN instantiate(st, effect.target, comps, systems)
    ELSE IF effect.kind = "destroy" THEN destroy(st, effect.target, systems)
    ELSE st

\* System.update(): `for entity_id in self.queued_entities`.  The dict
\* iterator raises RuntimeError when asked for its next key, the end of the
\* dict included, if the size of the dict is not the one it started with.
RECURSIVE update_loop(_, _, _, _, _, _, _, _)
update_loop(st, system, ids, i, size, effect, comps, systems) ==
    IF st.err # NoError THEN st
    ELSE IF Cardinality(st.queued[system]) # size THEN Failed(st, "RuntimeError")
    ELSE IF i > Len(ids) THEN st
    ELSE LET called == CallHook(st, "update_entity", system, ids[i])
             updated == IF system = "ScriptingSystem" /\ effect.by = ids[i]
                        THEN script_update(called, effect, comps, systems)
                        ELSE called
         IN  update_loop(updated, system, ids, i + 1, size, effect, comps, systems)

\* System.update(events, delta_time): no class assigns before_update or
\* after_update
System_update(st, system, order, effect, comps, systems) ==
    IF _update_entity(system)
    THEN update_loop(st, system, SelectIn(order, st.queued[system]), 1,
                     Cardinality(st.queued[system]), effect, comps, systems)
    ELSE st

\* Scene.update(events, delta_time): `for system in self._systems`
RECURSIVE update_systems_loop(_, _, _, _, _, _)
update_systems_loop(st, run_order, i, order, effect, comps) ==
    IF i > Len(run_order) \/ st.err # NoError THEN st
    ELSE update_systems_loop(System_update(st, run_order[i], order, effect, comps, run_order),
                             run_order, i + 1, order, effect, comps)

\* Scene.update(events, delta_time)
Scene_update(st, order, systems, effect, comps) ==
    update_systems_loop(st, systems, 1, order, effect, comps)

\* Scene.finish(): `self._done = False`, then the scene's _finish() hook,
\* which does nothing unless a subclass overrides it. Neither _entities nor
\* any system's queued_entities is touched.
finish(st) == [st EXCEPT !.entities = @, !.queued = @]

---------------------------------------------------------------------------
(* core/application.py: Application and its main loop; core/system.py:     *)
(* SystemsPipeline and SystemsSchedule; the scenes the application runs    *)

MaxFrames == 2      \* iterations of the main loop

\* The scenes registered in the application, and an id that is not.
SceneIds == {"menu", "game"}
UnknownSceneId == "nowhere"
NoScene == ""

\* SystemsSchedule of a scene: the systems of its start pipeline and of its
\* update pipeline.
Pipelines == {"start", "update"}
PipelineSystems == {"setup", "spawn", "input", "logic"}
NoSystem == ""
schedule(scene) ==
    [start |-> IF scene = "menu" THEN {"setup"} ELSE {"setup", "spawn"},
     update |-> {"input", "logic"}]

\* Application.__init__ and the scenes as constructed: nothing has run.
\* `failed`: an exception has left a step (Application.run logs it and goes
\* on to _finish).
NewApp == [current |-> NoScene, running |-> FALSE, phase |-> "new", frames |-> 0, failed |-> FALSE]
NewScenes ==
    [scene \in SceneIds |->
        [starts |-> 0, updates |-> 0, finished |-> FALSE, next |-> NoScene, done |-> FALSE]]
NoRuns == [scene \in SceneIds |-> [pipeline \in Pipelines |-> [system \in PipelineSystems |-> 0]]]

\* A call of the application as it runs: the application, its scenes, the
\* executions counted, the events of the call in order, the exception.
Event(event, scene, pipeline, system) ==
    [event |-> event, scene |-> scene, pipeline |-> pipeline, system |-> system]
Log(w, event) == [w EXCEPT !.events = Append(@, event)]
Raised(w, err) == Log([w EXCEPT !.err = err], Event("raise", NoScene, "", NoSystem))

\* Scene.finish(): `self._done = False`, then the _finish() of the scene
Scene_finish(w, scene) ==
    Log([w EXCEPT !.scenes[scene].finished = TRUE, !.scenes[scene].done = FALSE],
        Event("finish", scene, "", NoSystem))

\* Scene.switch_scene(next_scene_id): a request left on the scene
Scene_switch_scene(w, scene, next_scene_id) ==
    [w EXCEPT !.scenes[scene].next = next_scene_id, !.scenes[scene].done = TRUE]

\* Application.quit()
Application_quit(w) == [w EXCEPT !.app.running = FALSE]

\* What the executor of a system does with the application when run.
NoRequest == [by |-> NoSystem, kind |-> "none", target |-> NoScene]
Requests ==
    {NoRequest}
        \cup {[by |-> by, kind |-> kind, target |-> target] :
                by \in {"input", "logic"},
                kind \in {"Application.switch_scene", "Scene.switch_scene"},
                target \in SceneIds \cup {UnknownSceneId}}
        \cup {[by |-> by, kind |-> kind, target |-> NoScene] :
                by \in {"input", "logic"}, kind \in {"Application.quit", "raise"}}

RECURSIVE SystemsPipeline_run(_, _, _, _, _, _)
RECURSIVE Application_switch_scene(_, _, _)

\* System.run(app): the executor is called; it may ask for something.
System_run(w, scene, pipeline, system, order, request) ==
    LET ran == Log([w EXCEPT !.runs[scene][pipeline][system] = @ + 1],
                   Event("run", scene, pipeline, system))
    IN  IF request.by # system \/ pipeline # "update" THEN ran
        ELSE IF request.kind = "Application.switch_scene"
        THEN Application_switch_scene(ran, request.target, order)
        ELSE IF request.kind = "Scene.switch_scene"
        THEN Scene_switch_scene(ran, scene, request.target)
        ELSE IF request.kind = "Application.quit" THEN Application_quit(ran)
        ELSE IF request.kind = "raise" THEN Raised(ran, "Exception")
        ELSE ran

\* SystemsPipeline.run with a `break` at the end of the loop body: only the
\* first system runs.
SystemsPipeline_run_first(w, scene, pipeline, systems, order, request) ==
    IF systems = << >> THEN w
    ELSE System_run(w, scene, pipeline, systems[1], order, request)

\* SystemsPipeline.run with `system.run(app)` inside try/except: the loop
\* goes on to the next system after one has raised.
SystemsPipeline_run_catching(w, scene, pipeline, systems, order, request) ==
    IF systems = << >> THEN w
    ELSE SystemsPipeline_run(System_run(w, scene, pipeline, systems[1], order, request),
                             scene, pipeline, Tail(systems), order, request)

\* SystemsPipeline.run(app): `for system in self._systems: system.run(app)`;
\* `systems` is what the loop has still to visit.
SystemsPipeline_run(w, scene, pipeline, systems, order, request) ==
    IF systems = << >> \/ w.err # NoError THEN w
    ELSE SystemsPipeline_run(System_run(w, scene, pipeline, systems[1], order, request),
                             scene, pipeline, Tail(systems), order, request)

\* Scene.start(): the systems of the start pipeline run once.
App_Scene_start(w, scene, order) ==
    SystemsPipeline_run(Log([w EXCEPT !.scenes[scene].starts = @ + 1],
                            Event("start", scene, "", NoSystem)),
                        scene, "start", SelectIn(order, schedule(scene).start), order, NoRequest)

\* Scene.update(): the systems of the update pipeline run once.
App_Scene_update(w, scene, order, request) ==
    SystemsPipeline_run([w EXCEPT !.scenes[scene].updates = @ + 1],
                        scene, "update", SelectIn(order, schedule(scene).update), order, request)

\* Application.switch_scene with the lookup of the scene moved below
\* `self._current_scene.finish()`: an unknown id is noticed too late.
Application_switch_scene_finish_first(w, next_scene_id, order) ==
    IF next_scene_id \notin SceneIds
    THEN Raised(Scene_finish(w, w.app.current), "UnknownSceneIdError")
    ELSE App_Scene_start([Scene_finish(w, w.app.current) EXCEPT !.app.current = next_scene_id],
                         next_scene_id, order)

\* Application.switch_scene(next_scene_id)
Application_switch_scene(w, next_scene_id, order) ==
    IF next_scene_id \notin SceneIds THEN Raised(w, "UnknownSceneIdError")
    ELSE App_Scene_start([Scene_finish(w, w.app.current) EXCEPT !.app.current = next_scene_id],
                         next_scene_id, order)

\* Application._start(start_scene_id), the scenes being registered
Application__start(w, start_scene_id, order) ==
    IF start_scene_id \notin SceneIds THEN Raised(w, "UnknownSceneIdError")
    ELSE LET started == App_Scene_start([w EXCEPT !.app.current = start_scene_id],
                                        start_scene_id, order)
         IN  [started EXCEPT !.app.running = TRUE]

\* Application._update()
Application__update(w, order, request) ==
    App_Scene_update(w, w.app.current, order, request)

\* Application._finish()
Application__finish(w) ==
    IF w.app.current = NoScene THEN Raised(w, "AttributeError")
    ELSE Scene_finish(w, w.app.current)

---------------------------------------------------------------------------
(* The application: Application.run(start_scene_id) step by step *)

\* The record of a step of Application.run.
AppCall(op, w) == [op |-> op, err |-> w.err, events |-> w.events]
NoAppCall == [op |-> "", err |-> NoError, events |-> << >>]
Stepping == [app |-> app, scenes |-> scenes, runs |-> runs, events |-> << >>, err |-> NoError]

InitApp ==
    /\ app = NewApp
    /\ scenes = NewScenes
    /\ runs = NoRuns
    /\ appcall = NoAppCall

---------------------------------------------------------------------------
(* core/system.py: make_system, System.__init__, SystemsPipeline.add and   *)
(* SystemsPipeline.run over System objects and their executors             *)

MaxSystems == 2     \* System objects constructed

\* What client code passes as a system executor, and Python's callable().
Executors == {"function", "object with __call__", "number", "None"}
NoExecutor == "no such System"
callable(system_executor) == system_executor \in {"function", "object with __call__"}

\* The System objects, in the order of construction; those constructed.
SystemObjects == 1 .. MaxSystems
NoSystemObject == 0
Constructed(objects) == {system \in SystemObjects : objects[system] # NoExecutor}

Made(objects, err, ret) == [objects |-> objects, err |-> err, ret |-> ret]

\* System(name, executor, ec_table, *required_components): the executor is
\* stored as given.
System___init__(objects, system_executor) ==
    LET system == Cardinality(Constructed(objects)) + 1
    IN  Made([objects EXCEPT ![system] = system_executor], NoError, system)

\* make_system(system_executor, ec_table, *required_components)
make_system(objects, system_executor) ==
    IF ~callable(system_executor)
    THEN Made(objects, "SystemExecutorIsNotCallableError", NoSystemObject)
    ELSE System___init__(objects, system_executor)

\* SystemsPipeline.add(system)
SystemsPipeline_add(pipeline_systems, system) == pipeline_systems \cup {system}

\* System.run(app) as far as the executor goes: `self._executor(app, ...)`
\* raises TypeError when the executor is not callable.
executor_call(system_executor) == IF callable(system_executor) THEN NoError ELSE "TypeError"

\* SystemsPipeline.run(app): the loop over self._systems in the order the
\* set yields them; `ran` are the systems whose executor has been called.
RECURSIVE SystemsPipeline_run_executors(_, _, _)
SystemsPipeline_run_executors(objects, order, ran) ==
    IF order = << >> THEN [err |-> NoError, ran |-> ran]
    ELSE IF executor_call(objects[order[1]]) # NoError
    THEN [err |-> executor_call(objects[order[1]]), ran |-> ran]
    ELSE SystemsPipeline_run_executors(objects, Tail(order), ran \cup {order[1]})

PipeCall(op, err, ret) == [op |-> op, err |-> err, ret |-> ret]
NoPipeCall == PipeCall("", NoError, NoSystemObject)

InitPipeline ==
    /\ System_executor = [system \in SystemObjects |-> NoExecutor]
    /\ SystemsPipeline_systems = {}
    /\ pipecall = NoPipeCall

---------------------------------------------------------------------------
(* The state machine: one action per call *)

\* The record of a call: the method called, the exception that left it and
\* whether the call changed the object it was made on.
Call(op, err, changed) == [op |-> op, err |-> err, changed |-> changed]
NoCall == Call("", NoError, FALSE)

\* The values create_entity may take from the generator in one call: uids
\* that collide with live rows, then one that does not.
Draws(tbl) ==
    UNION {{collisions \o <<fresh>> :
                collisions \in [1 .. n -> generate_entity_uid \cap DOMAIN tbl],
                fresh \in generate_entity_uid \ DOMAIN tbl} : n \in 0 .. MaxDraws - 1}

\* The argument lists create_entity is called with.
ComponentLists == UNION {[1 .. n -> Components] : n \in 0 .. MaxComps}

\* The table and its systems after construction.
InitTable ==
    /\ table = EmptyDict
    /\ entities = [system \in Systems |-> {}]
    /\ last = NoCall
    /\ retired = {}

\* The scene after construction, its Entity objects without components.
InitScene ==
    /\ Scene = NewScene
    /\ Entity_components = [entity \in EntityIds |-> {}]
    /\ frame = NoFrame

Init == InitTable /\ InitScene /\ InitApp /\ InitPipeline

\* ec_table.create_entity(name, *components)
CreateEntity ==
    \E name \in EntityNames, draws \in Draws(table), components \in ComponentLists :
        LET r == create_entity(table, name, draws, components)
        IN  /\ table' = r.table
            /\ last' = Call("create_entity", r.err, r.table # table)
            /\ UNCHANGED entities

\* ec_table.get_entity_by_uid(uid) and ec_table.get_entity_by_uid(uid, default)
GetEntityByUid ==
    \E uid \in UIDs, default \in {MISSING} \cup Defaults :
        LET r == get_entity_by_uid(table, uid, default)
        IN  /\ table' = r.table
            /\ last' = Call("get_entity_by_uid", r.err, r.table # table)
            /\ UNCHANGED entities

\* ec_table.delete_entity(uid)
DeleteEntity ==
    \E uid \in UIDs :
        LET r == delete_entity(table, uid)
        IN  /\ table' = r.table
            /\ last' = Call("delete_entity", r.err, r.table # table)
            /\ UNCHANGED entities

\* ec_table.add_component(entity_uid, component)
AddComponent ==
    \E uid \in UIDs, component \in Components :
        LET r == add_component(table, uid, component)
        IN  /\ table' = r.table
            /\ last' = Call("add_component", r.err, r.table # table)
            /\ UNCHANGED entities

\* ec_table.get_component(entity_uid, component_key)
GetComponent ==
    \E uid \in UIDs, key \in ComponentKeys :
        LET r == get_component(table, uid, key)
        IN  /\ table' = r.table
            /\ last' = Call("get_component", r.err, r.table # table)
            /\ UNCHANGED entities

\* ec_table.remove_component(entity_uid, component_key)
RemoveComponent ==
    \E uid \in UIDs, key \in ComponentKeys :
        LET r == remove_component(table, uid, key)
        IN  /\ table' = r.table
            /\ last' = Call("remove_component", r.err, r.table # table)
            /\ UNCHANGED entities

\* ec_table.get_entities_by_components(*keys, partitial=...)
GetEntitiesByComponents ==
    \E keys \in SUBSET ComponentKeys, partitial \in BOOLEAN :
        LET r == get_entities_by_components(table, keys, partitial)
        IN  /\ table' = r.table
            /\ last' = Call("get_entities_by_components", r.err, r.table # table)
            /\ UNCHANGED entities

\* The calls on an EcTable.
Next ==
    \/ CreateEntity /\ UNCHANGED <<retired, sceneVars, appVars, pipeVars>>
    \/ GetEntityByUid /\ UNCHANGED <<retired, sceneVars, appVars, pipeVars>>
    \/ DeleteEntity /\ UNCHANGED <<retired, sceneVars, appVars, pipeVars>>
    \/ AddComponent /\ UNCHANGED <<retired, sceneVars, appVars, pipeVars>>
    \/ GetComponent /\ UNCHANGED <<retired, sceneVars, appVars, pipeVars>>
    \/ RemoveComponent /\ UNCHANGED <<retired, sceneVars, appVars, pipeVars>>
    \/ GetEntitiesByComponents /\ UNCHANGED <<retired, sceneVars, appVars, pipeVars>>

Spec == Init /\ [][Next]_vars

---------------------------------------------------------------------------
(* Systems over the table *)

\* The table calls made around the systems: create_entity with a generator
\* value that does not collide and at most one component, add_component
\* with one object of each component type.
SystemComponents == {Component(key, "first") : key \in InstantiatedKeys}

SystemCreateEntity ==
    \E name \in EntityNames, fresh \in generate_entity_uid \ DOMAIN table,
       components \in {<< >>} \cup {<<component>> : component \in SystemComponents} :
        LET r == create_entity(table, name, <<fresh>>, components)
        IN  /\ table' = r.table
            /\ last' = Call("create_entity", r.err, r.table # table)
            /\ UNCHANGED entities

SystemAddComponent ==
    \E uid \in UIDs, component \in SystemComponents :
        LET r == add_component(table, uid, component)
        IN  /\ table' = r.table
            /\ last' = Call("add_component", r.err, r.table # table)
            /\ UNCHANGED entities

\* system.add_entity(entity_uid)
SystemAddEntity ==
    \E system \in Systems, uid \in UIDs :
        LET r == add_entity(entities[system], uid)
        IN  /\ entities' = [entities EXCEPT ![system] = r.entities]
            /\ last' = Call("add_entity", r.err, r.entities # entities[system])
            /\ UNCHANGED table

\* system.remove_entity(entity_uid)
SystemRemoveEntity ==
    \E system \in Systems, uid \in UIDs :
        LET r == remove_entity(entities[system], uid)
        IN  /\ entities' = [entities EXCEPT ![system] = r.entities]
            /\ last' = Call("remove_entity", r.err, r.entities # entities[system])
            /\ UNCHANGED table

\* system.update_entities()
SystemUpdateEntities ==
    \E system \in Systems :
        LET r == update_entities(table, system)
        IN  /\ entities' = [entities EXCEPT ![system] = r.entities]
            /\ last' = Call("update_entities", r.err, r.entities # entities[system])
            /\ UNCHANGED table

\* system.run(app)
SystemRun ==
    \E system \in Systems :
        LET r == run(table, entities[system])
        IN  /\ last' = Call("run", r.err, FALSE)
            /\ UNCHANGED <<table, entities>>

\* The calls that change an EcTable, and the calls on the systems over it.
NextSystem ==
    \/ SystemCreateEntity /\ UNCHANGED <<retired, sceneVars, appVars, pipeVars>>
    \/ DeleteEntity /\ UNCHANGED <<retired, sceneVars, appVars, pipeVars>>
    \/ SystemAddComponent /\ UNCHANGED <<retired, sceneVars, appVars, pipeVars>>
    \/ RemoveComponent /\ UNCHANGED <<retired, sceneVars, appVars, pipeVars>>
    \/ SystemAddEntity /\ UNCHANGED <<retired, sceneVars, appVars, pipeVars>>
    \/ SystemRemoveEntity /\ UNCHANGED <<retired, sceneVars, appVars, pipeVars>>
    \/ SystemUpdateEntities /\ UNCHANGED <<retired, sceneVars, appVars, pipeVars>>
    \/ SystemRun /\ UNCHANGED <<retired, sceneVars, appVars, pipeVars>>

SpecSystem == Init /\ [][NextSystem]_vars

---------------------------------------------------------------------------
(* The table with the history of the uids that have left it *)

\* The history variable: a uid retires when its row leaves the table.
Retire == retired' = retired \cup (DOMAIN table \ DOMAIN table')

NextHistory ==
    \/ CreateEntity /\ Retire /\ UNCHANGED <<sceneVars, appVars, pipeVars>>
    \/ DeleteEntity /\ Retire /\ UNCHANGED <<sceneVars, appVars, pipeVars>>
    \/ AddComponent /\ Retire /\ UNCHANGED <<sceneVars, appVars, pipeVars>>
    \/ RemoveComponent /\ Retire /\ UNCHANGED <<sceneVars, appVars, pipeVars>>

SpecHistory == Init /\ [][NextHistory]_vars

---------------------------------------------------------------------------
(* Queries on the tables of up to MaxQueryUids entities over A, B and C *)

\* The row create_entity(name, *components) builds for uid, the components
\* being the first object of every type in keys.
QueryRow(uid, keys) ==
    [k \in {EntityDataKey} \cup keys |->
        IF k = EntityDataKey THEN EntityData("player", uid) ELSE Component(k, "first")]

\* The tables such calls build.
QueryTables ==
    UNION {{[uid \in live |-> QueryRow(uid, keys[uid])] : keys \in [live -> SUBSET OptionalKeys]} :
                live \in SUBSET (1 .. MaxQueryUids)}

InitQuery ==
    /\ table \in QueryTables
    /\ entities = [system \in Systems |-> {}]
    /\ last = NoCall
    /\ retired = {}
    /\ InitScene
    /\ InitApp
    /\ InitPipeline

NextQuery == GetEntitiesByComponents /\ UNCHANGED <<retired, sceneVars, appVars, pipeVars>>

SpecQuery == InitQuery /\ [][NextQuery]_vars

---------------------------------------------------------------------------
(* The scene: one action per call of client code *)

\* The record of a call on the scene.
Frame(op, entity, st) == [op |-> op, entity |-> entity, err |-> st.err, hooks |-> st.hooks]
Left(st) == [entities |-> st.entities, queued |-> st.queued]

\* The Entity objects client code has made, with any components.
InitEntities ==
    /\ Scene = NewScene
    /\ Entity_components \in [EntityIds -> SUBSET SceneComponentKeys]
    /\ frame = NoFrame

\* scene.start()
SceneStart ==
    \E user_defined_entities \in SUBSET EntityIds,
       order \in Orders(EntityIds), systems \in Orders(SceneSystems) :
        LET st == Scene_start(Running(Scene), user_defined_entities, Entity_components, order, systems)
        IN  /\ Scene' = Left(st)
            /\ frame' = Frame("start", NoEntity, st)
            /\ UNCHANGED Entity_components

\* scene.instantiate(entity)
SceneInstantiate ==
    \E entity \in EntityIds, systems \in Orders(SceneSystems) :
        LET st == instantiate(Running(Scene), entity, Entity_components, systems)
        IN  /\ Scene' = Left(st)
            /\ frame' = Frame("instantiate", entity, st)
            /\ UNCHANGED Entity_components

\* scene.destroy(entity)
SceneDestroy ==
    \E entity \in EntityIds, systems \in Orders(SceneSystems) :
        LET st == destroy(Running(Scene), entity, systems)
        IN  /\ Scene' = Left(st)
            /\ frame' = Frame("destroy", entity, st)
            /\ UNCHANGED Entity_components

\* scene.update(events, delta_time)
SceneUpdate ==
    \E order \in Orders(EntityIds), systems \in Orders(SceneSystems), effect \in Effects(Scene) :
        LET st == Scene_update(Running(Scene), order, systems, effect, Entity_components)
        IN  /\ Scene' = Left(st)
            /\ frame' = Frame("update", NoEntity, st)
            /\ UNCHANGED Entity_components

\* scene.finish()
SceneFinish ==
    LET st == finish(Running(Scene))
    IN  /\ Scene' = Left(st)
        /\ frame' = Frame("finish", NoEntity, st)
        /\ UNCHANGED Entity_components

NextScene ==
    \/ SceneStart /\ UNCHANGED <<table, entities, last, retired, appVars, pipeVars>>
    \/ SceneInstantiate /\ UNCHANGED <<table, entities, last, retired, appVars, pipeVars>>
    \/ SceneDestroy /\ UNCHANGED <<table, entities, last, retired, appVars, pipeVars>>
    \/ SceneUpdate /\ UNCHANGED <<table, entities, last, retired, appVars, pipeVars>>
    \/ SceneFinish /\ UNCHANGED <<table, entities, last, retired, appVars, pipeVars>>

InitSceneEntities == InitTable /\ InitEntities /\ InitApp /\ InitPipeline

SpecScene == InitSceneEntities /\ [][NextScene]_vars

---------------------------------------------------------------------------
(* The application: the actions *)

\* Application._run: self._start(start_scene_id)
AppStart ==
    /\ app.phase = "new"
    /\ \E start_scene_id \in SceneIds \cup {UnknownSceneId}, order \in Orders(PipelineSystems) :
        LET w == Application__start(Stepping, start_scene_id, order)
        IN  /\ app' = [w.app EXCEPT !.phase = "started", !.failed = w.err # NoError]
            /\ scenes' = w.scenes
            /\ runs' = w.runs
            /\ appcall' = AppCall("_start", w)

\* Application._run: one iteration of `while self._running`
AppUpdate ==
    /\ app.phase = "started"
    /\ ~app.failed
    /\ app.running
    /\ app.frames < MaxFrames
    /\ \E order \in Orders(PipelineSystems), request \in Requests :
        LET w == Application__update(Stepping, order, request)
        IN  /\ app' = [w.app EXCEPT !.frames = @ + 1, !.failed = w.err # NoError]
            /\ scenes' = w.scenes
            /\ runs' = w.runs
            /\ appcall' = AppCall("_update", w)

\* Application.run: `finally: self._finish()`, the loop being over or an
\* exception having left it
AppFinish ==
    /\ app.phase = "started"
    /\ app.failed \/ ~app.running
    /\ LET w == Application__finish(Stepping)
       IN  /\ app' = [w.app EXCEPT !.phase = "finished", !.running = FALSE,
                                  !.failed = @ \/ w.err # NoError]
           /\ scenes' = w.scenes
           /\ runs' = w.runs
           /\ appcall' = AppCall("_finish", w)

NextApp ==
    \/ AppStart /\ UNCHANGED <<table, entities, last, retired, sceneVars, pipeVars>>
    \/ AppUpdate /\ UNCHANGED <<table, entities, last, retired, sceneVars, pipeVars>>
    \/ AppFinish /\ UNCHANGED <<table, entities, last, retired, sceneVars, pipeVars>>

SpecApp == Init /\ [][NextApp]_vars

---------------------------------------------------------------------------
(* Systems and a pipeline: the actions *)

\* make_system(system_executor, ec_table)
PipelineMakeSystem ==
    /\ Constructed(System_executor) # SystemObjects
    /\ \E system_executor \in Executors :
        LET r == make_system(System_executor, system_executor)
        IN  /\ System_executor' = r.objects
            /\ pipecall' = PipeCall("make_system", r.err, r.ret)
            /\ UNCHANGED SystemsPipeline_systems

\* System(name, system_executor, ec_table)
PipelineSystem ==
    /\ Constructed(System_executor) # SystemObjects
    /\ \E system_executor \in Executors :
        LET r == System___init__(System_executor, system_executor)
        IN  /\ System_executor' = r.objects
            /\ pipecall' = PipeCall("System", r.err, r.ret)
            /\ UNCHANGED SystemsPipeline_systems

\* pipeline.add(system)
PipelineAdd ==
    \E system \in Constructed(System_executor) :
        /\ SystemsPipeline_systems' = SystemsPipeline_add(SystemsPipeline_systems, system)
        /\ pipecall' = PipeCall("add", NoError, system)
        /\ UNCHANGED System_executor

\* pipeline.run(app)
PipelineRun ==
    \E order \in Orders(SystemsPipeline_systems) :
        LET r == SystemsPipeline_run_executors(System_executor, order, {})
        IN  /\ pipecall' = PipeCall("run", r.err, Cardinality(r.ran))
            /\ UNCHANGED <<System_executor, SystemsPipeline_systems>>

NextPipeline ==
    \/ PipelineMakeSystem /\ UNCHANGED <<table, entities, last, retired, sceneVars, appVars>>
    \/ PipelineSystem /\ UNCHANGED <<table, entities, last, retired, sceneVars, appVars>>
    \/ PipelineAdd /\ UNCHANGED <<table, entities, last, retired, sceneVars, appVars>>
    \/ PipelineRun /\ UNCHANGED <<table, entities, last, retired, sceneVars, appVars>>

SpecPipeline == Init /\ [][NextPipeline]_vars

---------------------------------------------------------------------------
(* Properties of EcTable *)

\* The uids of the live rows.
Live == DOMAIN table

\* C1. Mandatory component invariant: every live row holds an EntityData
\* entry, get_component(id, EntityData) is never None for a live id, and
\* remove_component(id, EntityData) on a live id raises
\* EntityDataRemovalAttemptError and leaves the table as it was.
C1_MandatoryComponent ==
    \A uid \in Live :
        /\ EntityDataKey \in DOMAIN table[uid]
        /\ table[uid][EntityDataKey].key = EntityDataKey
        /\ get_component(table, uid, EntityDataKey).ret.comp # None
        /\ remove_component(table, uid, EntityDataKey)
               = Raise(table, "EntityDataRemovalAttemptError")

\* C2. Collision rejection: for a live id and a component whose type is
\* already attached to it (EntityData included), add_component raises
\* ComponentsCollisionError and the table, so also the instance attached
\* first, is as it was.
C2_CollisionRejection ==
    \A uid \in Live, component \in Components :
        get_key(component) \in DOMAIN table[uid] =>
            LET r == add_component(table, uid, component)
            IN  /\ r.err = "ComponentsCollisionError"
                /\ r.table = table
                /\ r.table[uid][get_key(component)] = table[uid][get_key(component)]

\* C2: add_component has just been refused on a row that holds an A or a B.
C2_Witness ==
    /\ last = Call("add_component", "ComponentsCollisionError", FALSE)
    /\ \E uid \in Live, key \in InstantiatedKeys : key \in DOMAIN table[uid]

\* C3. Collision-free identity allocation: whatever the generator yields,
\* create_entity leaves every live row as it was; when it returns, it
\* returns a handle for a uid that was not live, and that uid is the one
\* new row; two allocations in a row return two different uids.
C3_CollisionFreeAllocation ==
    \A name \in EntityNames, draws \in Draws(table), components \in ComponentLists :
        LET r == create_entity(table, name, draws, components)
        IN  /\ \A uid \in Live : uid \in DOMAIN r.table /\ r.table[uid] = table[uid]
            /\ r.err = NoError =>
                /\ r.ret.kind = "Entity"
                /\ r.ret.uid \notin Live
                /\ DOMAIN r.table = Live \cup {r.ret.uid}
                /\ Cardinality(DOMAIN r.table) = Cardinality(Live) + 1
                /\ \A draws2 \in Draws(r.table) :
                       LET r2 == create_entity(r.table, name, draws2, << >>)
                       IN  r2.err = NoError /\ r2.ret.uid # r.ret.uid

\* C3: create_entity has just returned and two rows are live, so the
\* generator may have collided with the first.
C3_Witness ==
    /\ last = Call("create_entity", NoError, TRUE)
    /\ Cardinality(Live) >= 2

C5_GetEntityByUid ==
    \A uid \in UIDs, default \in {MISSING} \cup Defaults :
        LET r == get_entity_by_uid(table, uid, default)
        IN  /\ r.table = table
            /\ uid \in Live => r.err = NoError /\ r.ret.kind = "Entity" /\ r.ret.uid = uid
            /\ uid \notin Live /\ default = MISSING =>
                   r.err = "UnknownEntityUidError" /\ r.ret = RetNone
            /\ uid \notin Live /\ default # MISSING =>
                   r.err = NoError /\ r.ret.kind = "value" /\ r.ret.value = default

\* C5: get_entity_by_uid has just returned, with a live and an absent uid
\* to ask for.
C5_Witness ==
    /\ last = Call("get_entity_by_uid", NoError, FALSE)
    /\ Live # {}
    /\ UIDs \ Live # {}

\* C6. delete_entity(id): for an absent id it raises UnknownEntityUidError
\* and the table is as it was; for a live id it removes the row with all
\* its components and leaves every other row as it was, so that a second
\* delete_entity(id) raises UnknownEntityUidError.
C6_DeleteEntity ==
    \A uid \in UIDs :
        LET r == delete_entity(table, uid)
        IN  /\ uid \notin Live => r = Raise(table, "UnknownEntityUidError")
            /\ uid \in Live =>
                /\ r.err = NoError
                /\ DOMAIN r.table = Live \ {uid}
                /\ \A other \in Live \ {uid} : r.table[other] = table[other]
                /\ \A key \in ComponentKeys : get_component(r.table, uid, key).ret = RetNone
                /\ delete_entity(r.table, uid) = Raise(r.table, "UnknownEntityUidError")

\* C6: delete_entity has just removed a row and another row is still live.
C6_Witness ==
    /\ last = Call("delete_entity", NoError, TRUE)
    /\ Live # {}

\* C7. Deletion cascades: once delete_entity(id) has succeeded, id is in no
\* system's cached query set and iter_entities() does not produce it.
C7_DeletionCascades ==
    [][last'.op = "delete_entity" /\ last'.err = NoError =>
            \A uid \in DOMAIN table \ DOMAIN table' :
                /\ uid \notin iter_entities(table')
                /\ \A system \in Systems : uid \notin entities'[system]]_vars

\* C8. Lookup totality: get_component never raises and leaves the table as
\* it was; it returns the component attached under the key of a live id,
\* and None for an absent id, a key never attached and a key removed.
C8_LookupTotality ==
    \A uid \in UIDs, key \in ComponentKeys :
        LET r == get_component(table, uid, key)
        IN  /\ r.err = NoError
            /\ r.table = table
            /\ uid \in Live /\ key \in DOMAIN table[uid] =>
                   r.ret.kind = "Component" /\ r.ret.comp = table[uid][key]
            /\ uid \notin Live => r.ret = RetNone
            /\ uid \in Live /\ key \notin DOMAIN table[uid] => r.ret = RetNone
            /\ uid \in Live /\ key \in DOMAIN table[uid] /\ key # EntityDataKey =>
                   get_component(remove_component(table, uid, key).table, uid, key)
                       = Return(remove_component(table, uid, key).table, RetNone)

\* C8: get_component has just returned; a uid is absent, and a live row
\* holds one optional component and lacks another.
C8_Witness ==
    /\ last = Call("get_component", NoError, FALSE)
    /\ UIDs \ Live # {}
    /\ \E uid \in Live : "A" \in DOMAIN table[uid] /\ "B" \notin DOMAIN table[uid]

\* C9. remove_component(id, key): raises UnknownEntityUidError for an absent
\* id; does nothing when the live id has no component under key; otherwise,
\* key not being EntityData, removes that one component and leaves every
\* other component of the row and every other row as it was.
C9_RemoveComponent ==
    \A uid \in UIDs, key \in ComponentKeys :
        LET r == remove_component(table, uid, key)
        IN  /\ uid \notin Live => r = Raise(table, "UnknownEntityUidError")
            /\ uid \in Live /\ key \notin DOMAIN table[uid] => r = Return(table, RetNone)
            /\ uid \in Live /\ key \in DOMAIN table[uid] /\ key # EntityDataKey =>
                /\ r.err = NoError
                /\ DOMAIN r.table = Live
                /\ DOMAIN r.table[uid] = DOMAIN table[uid] \ {key}
                /\ \A k \in DOMAIN r.table[uid] : r.table[uid][k] = table[uid][k]
                /\ \A other \in Live \ {uid} : r.table[other] = table[other]

\* C9: remove_component has just removed a component; the row keeps another
\* optional component and a second row is live.
C9_Witness ==
    /\ last = Call("remove_component", NoError, TRUE)
    /\ Cardinality(Live) >= 2
    /\ \E uid \in Live : Cardinality(DOMAIN table[uid]) = 2

\* The entities of the example: E1 = {A, B}, E2 = {A}, E3 = {B, C}.
ExampleTable ==
    [uid \in {1, 2, 3} |->
        QueryRow(uid, IF uid = 1 THEN {"A", "B"} ELSE IF uid = 2 THEN {"A"} ELSE {"B", "C"})]

C11_MatchEntity ==
    \A system \in Systems, uid \in UIDs :
        match_entity(table, system, uid)
            <=> (uid \in Live /\ required_components(system) \subseteq DOMAIN table[uid])

\* The live entities that have every component a system requires.
Matching(tbl, system) ==
    {uid \in DOMAIN tbl : required_components(system) \subseteq DOMAIN tbl[uid]}

\* C12. update_entities() is a full resynchronization: whatever the cache
\* held before, after the call it is exactly the set of live entities that
\* match the system; the table and the other caches are as they were.
C12_FullResynchronization ==
    [][last'.op = "update_entities" =>
            /\ last'.err = NoError
            /\ table' = table
            /\ \E system \in Systems :
                   entities' = [entities EXCEPT ![system] = Matching(table, system)]]_vars

\* C12: update_entities has just replaced a cache that was out of date, and
\* the table holds a row that matches the system and a row that does not.
C12_Witness ==
    /\ last = Call("update_entities", NoError, TRUE)
    /\ \E system \in Systems :
           /\ entities[system] = Matching(table, system)
           /\ entities[system] # {}
           /\ Live \ entities[system] # {}

\* C13. remove_entity(id) raises on an id that is not in the cache and
\* leaves the cache as it was; on a cached id it removes exactly that id;
\* add_entity(id) inserts id, and adding a cached id changes nothing.
C13_CacheMembership ==
    \A system \in Systems, uid \in UIDs :
        LET cache == entities[system]
            removed == remove_entity(cache, uid)
            added == add_entity(cache, uid)
        IN  /\ uid \notin cache => removed.err # NoError /\ removed.entities = cache
            /\ uid \in cache => removed.err = NoError /\ removed.entities = cache \ {uid}
            /\ added.err = NoError
            /\ added.entities = cache \cup {uid}
            /\ add_entity(added.entities, uid) = added

\* C13: remove_entity has just failed on an id the cache does not hold,
\* while the cache holds another id.
C13_Witness ==
    /\ last = Call("remove_entity", "KeyError", FALSE)
    /\ \E system \in Systems : entities[system] # {} /\ UIDs \ entities[system] # {}

\* The entities of the scene that a system works on.
SceneMatching(system) ==
    {entity \in Scene.entities : _match_entity(system, Entity_components[entity]) # {}}

\* The update_entity calls of a system in the latest call on the scene.
UpdateHooks(system) ==
    SelectSeq(frame.hooks, LAMBDA h : h.hook = "update_entity" /\ h.system = system)

\* C14. Snapshot semantics of a system run: the entities a system processes
\* in one update call are the ones queued when the call begins; instantiating
\* or destroying entities from inside a per-entity hook neither changes
\* which entities the call processes nor makes the call fail.
C14_SnapshotSemantics ==
    frame.op = "update" =>
        /\ frame.err = NoError
        /\ \A system \in SceneSystems :
               LET calls == UpdateHooks(system)
               IN  calls # << >> =>
                       {calls[i].entity : i \in DOMAIN calls} = calls[1].queued[system]

\* The start() calls a scene had had before the latest step began.
StartsBefore(scene) ==
    scenes[scene].starts
        - Cardinality({i \in DOMAIN appcall.events :
                          appcall.events[i].event = "start" /\ appcall.events[i].scene = scene})

C16_CachesBeforeStartLogic ==
    frame.op = "start" /\ frame.hooks # << >> =>
        frame.hooks[1].queued = [system \in SceneSystems |-> SceneMatching(system)]

C18_DestroyCascades ==
    [][frame'.op = "destroy" /\ frame'.entity \in Scene.entities =>
            /\ frame'.err = NoError
            /\ Scene'.entities = Scene.entities \ {frame'.entity}
            /\ \A system \in SceneSystems :
                   Scene'.queued[system] = Scene.queued[system] \ {frame'.entity}]_vars

\* C18: destroy has just removed an entity that one system had queued and
\* the other had not, and another entity is still queued.
C18_Witness ==
    /\ frame.op = "destroy"
    /\ frame.err = NoError
    /\ frame.entity \notin Scene.entities
    /\ Entity_components[frame.entity] = {"Script"}
    /\ \E system \in SceneSystems : Scene.queued[system] # {}

\* The events of the latest step of Application.run.
Events == appcall.events
IsRun(event, pipelines) == event.event = "run" /\ event.pipeline \in pipelines
IsFinish(event, scene) == event.event = "finish" /\ event.scene = scene

\* C19. A scene switch asked for by a system during update() does not
\* interrupt the frame: every system of the current scene's update pipeline
\* still runs in that iteration, and finish() of the current scene and
\* start() of the successor are called only when the pipeline is through.
C19_SwitchAfterFrame ==
    appcall.op = "_update" /\ appcall.err = NoError =>
        /\ \E scene \in SceneIds :
               \A system \in schedule(scene).update :
                   \E j \in DOMAIN Events :
                       Events[j] = Event("run", scene, "update", system)
        /\ \A i, j \in DOMAIN Events :
               Events[i].event \in {"finish", "start"} /\ IsRun(Events[j], {"update"}) => j < i

\* The scenes whose finish() had been called before the latest step began.
FinishedBefore(scene) ==
    scenes[scene].finished /\ \A i \in DOMAIN Events : ~IsFinish(Events[i], scene)

\* C20. Scene lifecycle Unstarted -> Running -> Finished, Finished being
\* terminal: a system of a scene runs in update() only after start() of the
\* scene, and no system of a scene runs, in start() or in update(), once
\* finish() has been called on the scene.
C20_Lifecycle ==
    \A j \in DOMAIN Events :
        IsRun(Events[j], Pipelines) =>
            /\ ~FinishedBefore(Events[j].scene)
            /\ \A i \in 1 .. j - 1 : ~IsFinish(Events[i], Events[j].scene)
            /\ Events[j].pipeline = "update" => StartsBefore(Events[j].scene) >= 1

\* C21. Scene.finish() releases the state of the scene: when finish() has
\* returned the scene holds no entity and no system of the scene has an
\* entity queued.
C21_FinishReleases ==
    frame.op = "finish" /\ frame.err = NoError =>
        /\ Scene.entities = {}
        /\ \A system \in SceneSystems : Scene.queued[system] = {}

C23_FailureSemantics ==
    [][/\ appcall'.op = "_update" /\ appcall'.err # NoError =>
              /\ app'.failed
              /\ Len(appcall'.events) >= 2
              /\ appcall'.events[Len(appcall'.events)].event = "raise"
              /\ appcall'.events[Len(appcall'.events) - 1].event = "run"
       /\ appcall.op = "_update" /\ appcall.err # NoError =>
              /\ appcall'.op = "_finish"
              /\ appcall'.err = NoError
              /\ appcall'.events = <<Event("finish", app.current, "", NoSystem)>>
              /\ app'.phase = "finished"]_vars

\* The executor of the first system of a frame has raised and
\* Application._finish has run.
C23_Witness ==
    /\ app.phase = "finished"
    /\ app.failed
    /\ appcall.op = "_finish"
    /\ \E scene \in SceneIds :
           /\ runs[scene]["update"]["input"] + runs[scene]["update"]["logic"] = 1
           /\ scenes[scene].updates = 1
           /\ scenes[scene].finished

\* C23 (continued). After a failed frame Application._finish can run.
C23_FinishEnabled ==
    appcall.op = "_update" /\ appcall.err # NoError =>
        ENABLED (AppFinish /\ UNCHANGED <<table, entities, last, retired, sceneVars, pipeVars>>)

\* C24. A non-callable executor is rejected when the system is registered:
\* make_system raises SystemExecutorIsNotCallableError and makes no system,
\* every system in a pipeline has a callable executor, and pipeline.run
\* never fails because an executor cannot be called.
C24_CallableExecutors ==
    /\ pipecall.op = "make_system" /\ pipecall.err # NoError => pipecall.ret = NoSystemObject
    /\ \A system \in SystemsPipeline_systems : callable(System_executor[system])
    /\ pipecall.op = "run" => pipecall.err # "TypeError"

\* C25. Components are never shared between entities: no component
\* instance is attached to two rows of the table, and in every row every
\* key holds one component, of that key's type.
C25_NeverShared ==
    /\ \A uid \in DOMAIN table, other \in DOMAIN table :
           uid # other =>
               \A key \in DOMAIN table[uid] \cap DOMAIN table[other] :
                   table[uid][key] # table[other][key]
    /\ \A uid \in DOMAIN table :
           \A key \in DOMAIN table[uid] : get_key(table[uid][key]) = key

\* The methods of EcTable that change the table, and the methods of System
\* that change its cache.
TableMutators == {"create_entity", "delete_entity", "add_component", "remove_component"}
CacheMutators == {"add_entity", "remove_entity", "update_entities"}

\* C26. The cache of a system is a materialized view: create_entity,
\* delete_entity, add_component and remove_component leave every system's
\* cache as it was; a cache changes only in add_entity, remove_entity and
\* update_entities, and then only the cache of one system; run hands the
\* executor the cached uids and not the result of a new query.
C26_MaterializedView ==
    [][/\ last'.op \in TableMutators => entities' = entities
       /\ entities' # entities =>
              /\ last'.op \in CacheMutators
              /\ \E system \in Systems :
                     \A other \in Systems \ {system} : entities'[other] = entities[other]
       /\ last'.op = "run" /\ last'.err = NoError =>
              \A system \in Systems :
                  LET r == run(table, entities[system])
                  IN  r.err = NoError => r.ret = RetEntities(entities[system])]_vars

\* A call has changed the table and left a cache that holds an entity and
\* is no longer what a query would give.
C26_Witness ==
    /\ last.op \in TableMutators
    /\ last.err = NoError
    /\ last.changed
    /\ \E system \in Systems :
           /\ entities[system] # {}
           /\ entities[system] \subseteq Live
           /\ entities[system] # Matching(table, system)

\* C27. create_entity is atomic on failure: when create_entity raises
\* (two components of one type, or an EntityData component, among its
\* arguments) the table is what it was before the call; no new row, complete
\* or not, is left in it.
C27_CreateEntityAtomic ==
    [][last'.op = "create_entity" /\ last'.err # NoError => table' = table]_vars

\* C28. System.run gives its executor live entities only and never fails
\* with UnknownEntityUidError: whatever calls came before, run(app)
\* completes and the executor gets exactly the cached uids that are rows of
\* the table.
C28_RunOverLiveEntities ==
    \A system \in Systems :
        LET r == run(table, entities[system])
        IN  /\ r.err = NoError
            /\ r.ret = RetEntities(entities[system] \cap Live)

\* The start_entity calls of a system for an entity in the latest call on
\* the scene.
StartHooks(system, entity) ==
    SelectSeq(frame.hooks,
              LAMBDA h : h.hook = "start_entity" /\ h.system = system /\ h.entity = entity)

\* C29. In Scene.start() the start_entity hook of a system that has one is
\* called exactly once for every entity of the scene that matches the
\* system and never for another entity; in Scene.instantiate(entity) it is
\* called exactly once for the entity if the entity matches, and for no
\* other entity.
C29_StartEntityOnce ==
    \A system \in {s \in SceneSystems : _start_entity(s)}, entity \in EntityIds :
        /\ frame.op = "start" /\ frame.err = NoError =>
               Len(StartHooks(system, entity)) = IF entity \in SceneMatching(system) THEN 1 ELSE 0
        /\ frame.op = "instantiate" /\ frame.err = NoError =>
               Len(StartHooks(system, entity)) =
                   IF entity = frame.entity /\ entity \in SceneMatching(system) THEN 1 ELSE 0

\* C30. Application.run pairs start and finish: whatever happens in the
\* run (an unregistered start id, a system that raises), finish() is called
\* only on a scene whose start() has been called, every started scene has
\* been finished when run is over, and Application._finish, the last thing
\* run does, raises nothing.
C30_StartFinishPaired ==
    /\ \A i \in DOMAIN Events :
           Events[i].event = "finish" => scenes[Events[i].scene].starts >= 1
    /\ appcall.op = "_finish" => appcall.err = NoError
    /\ app.phase = "finished" =>
           \A scene \in SceneIds : scenes[scene].starts >= 1 => scenes[scene].finished

====
